---------------------------- MODULE Spec2Model ----------------------------
(***************************************************************************)
(* A model of AutoFixer (src/autofix.js): a patch session that owns a      *)
(* source text, admits fixes whose ranges do not overlap the ranges        *)
(* admitted before, and renders the patched text or the touched lines.     *)
(*                                                                         *)
(* Texts are sequences of one-character strings.  JavaScript arrays are    *)
(* 0-based and TLA+ sequences 1-based: the JS element a[i] is a[i + 1].    *)
(***************************************************************************)
EXTENDS Integers, Sequences, FiniteSets, TLC

VARIABLES
    file,          \* this._file: the source text, never changed
    lines,         \* this._lines: file.split("\n")
    lineOffsets,   \* this._lineOffsets: getLineOffsets(lines)
    replacements,  \* this._replacements: the accepted candidates
    op,            \* history: the operation called last
    arg,           \* history: its argument
    ret,           \* history: what it returned or threw
    submitted,     \* history: the candidates of each accepted fix since the
                   \* last reset, one group per fix, in order of acceptance
    tracker,       \* a PrefixSumTree object exercised on its own
    inserted       \* history: the <<point, value>> pairs inserted into it

vars == <<file, lines, lineOffsets, replacements, op, arg, ret, submitted,
          tracker, inserted>>

-----------------------------------------------------------------------------
(* Bounds of the model. *)

\* applyFix and applyFixes are offered while the accepted list would stay
\* within this many candidates, and the fixes accepted since the last
\* reset within as many.
MaxAccepted == 3

\* applyFixes is offered lists of at most this many fixes.
MaxBatch == 2

-----------------------------------------------------------------------------
(* JavaScript helpers. *)

Min(a, b) == IF a < b THEN a ELSE b
Max(a, b) == IF a > b THEN a ELSE b

\* Clamp an index as String.prototype.substring does.
Clamp(s, i) == Max(0, Min(i, Len(s)))

\* s.substring(a, b): both indices clamped to 0..length, swapped when a > b.
Substring(s, a, b) ==
    LET ca == Clamp(s, a)
        cb == Clamp(s, b)
        lo == Min(ca, cb)
        hi == Max(ca, cb)
    IN  SubSeq(s, lo + 1, hi)

\* s.substring(a)
SubstringFrom(s, a) == Substring(s, a, Len(s))

\* Mutant of Reverse: the list is taken in its own order.
ReverseNot(s) == [i \in 1..Len(s) |-> s[i]]

\* [...a].reverse()
Reverse(s) == [i \in 1..Len(s) |-> s[Len(s) + 1 - i]]

\* file.split("\n"), scanning from index i with the current piece cur.
RECURSIVE SplitFrom(_, _, _)
SplitFrom(s, i, cur) ==
    IF i > Len(s) THEN <<cur>>
    ELSE IF s[i] = "\n" THEN <<cur>> \o SplitFrom(s, i + 1, <<>>)
    ELSE SplitFrom(s, i + 1, Append(cur, s[i]))

SplitLines(s) == SplitFrom(s, 1, <<>>)

-----------------------------------------------------------------------------
(* Line index and tab stops. *)

\* Mutant of LineOffsetsLoop: the newline that ends a line is not counted.
RECURSIVE LineOffsetsLoopNoNewline(_, _, _, _)
LineOffsetsLoopNoNewline(ls, i, sum, offsets) ==
    IF i < Len(ls)
    THEN LineOffsetsLoopNoNewline(ls, i + 1, sum + Len(ls[i + 1]),
                                  Append(offsets, sum))
    ELSE Append(offsets, sum)

\* The loop of getLineOffsets: i is the JS index, sum the running offset.
RECURSIVE LineOffsetsLoop(_, _, _, _)
LineOffsetsLoop(ls, i, sum, offsets) ==
    IF i < Len(ls)
    THEN LineOffsetsLoop(ls, i + 1, sum + Len(ls[i + 1]) + 1, Append(offsets, sum))
    ELSE Append(offsets, sum)

getLineOffsets(ls) == LineOffsetsLoop(ls, 0, 0, <<>>)

tabstop == 8

\* Mutant of AdjustLoop: the column is compared with < where the code
\* compares with <=.
RECURSIVE AdjustLoopStrict(_, _, _, _)
AdjustLoopStrict(line, columnNo, i, logical) ==
    IF i < Len(line)
    THEN LET lg == IF line[i + 1] = "\t"
                   THEN logical + tabstop - (logical % tabstop)
                   ELSE logical + 1
         IN  IF columnNo < lg THEN i + 1
             ELSE AdjustLoopStrict(line, columnNo, i + 1, lg)
    ELSE i + 1

\* The loop of adjustTabStops: i is the JS index into the line, logical the
\* logical column reached before character i.
RECURSIVE AdjustLoop(_, _, _, _)
AdjustLoop(line, columnNo, i, logical) ==
    IF i < Len(line)
    THEN LET lg == IF line[i + 1] = "\t"
                   THEN logical + tabstop - (logical % tabstop)
                   ELSE logical + 1
         IN  IF columnNo <= lg THEN i + 1
             ELSE AdjustLoop(line, columnNo, i + 1, lg)
    ELSE i + 1

\* adjustTabStops(lineNo, columnNo), for a line that exists.
adjustTabStops(ls, lineNo, columnNo) == AdjustLoop(ls[lineNo], columnNo, 0, 0)

\* this._lines[lineNo-1] is undefined, and reading its length throws, when
\* lineNo is not the number of a line.
LineExists(ls, lineNo) == lineNo \in 1..Len(ls)

\* getOffsetFor(line, col), for a line that exists.
getOffsetFor(ls, offs, line, col) ==
    offs[line] + adjustTabStops(ls, line, col) - 1

-----------------------------------------------------------------------------
(* The prefix-sum tree.  A tree is a sequence of nodes, node 1 the root;    *)
(* left and right hold the index of the child, 0 for none.                  *)

NewNode(point, value) ==
    [pivot |-> point, sumLeft |-> value, left |-> 0, right |-> 0]

PrefixSumTree == <<NewNode(0, 0)>>

\* Mutant of InsertAt: a point equal to a pivot does not add to the node.
RECURSIVE InsertAtSkipEqual(_, _, _, _)
InsertAtSkipEqual(t, n, point, value) ==
    IF point < t[n].pivot
    THEN LET t1 == [t EXCEPT ![n].sumLeft = @ + value]
         IN  IF t[n].left = 0
             THEN Append([t1 EXCEPT ![n].left = Len(t) + 1], NewNode(point, value))
             ELSE InsertAtSkipEqual(t1, t[n].left, point, value)
    ELSE IF point > t[n].pivot
    THEN IF t[n].right = 0
         THEN Append([t EXCEPT ![n].right = Len(t) + 1], NewNode(point, value))
         ELSE InsertAtSkipEqual(t, t[n].right, point, value)
    ELSE t

RECURSIVE InsertAt(_, _, _, _)
InsertAt(t, n, point, value) ==
    IF point < t[n].pivot
    THEN LET t1 == [t EXCEPT ![n].sumLeft = @ + value]
         IN  IF t[n].left = 0
             THEN Append([t1 EXCEPT ![n].left = Len(t) + 1], NewNode(point, value))
             ELSE InsertAt(t1, t[n].left, point, value)
    ELSE IF point > t[n].pivot
    THEN IF t[n].right = 0
         THEN Append([t EXCEPT ![n].right = Len(t) + 1], NewNode(point, value))
         ELSE InsertAt(t, t[n].right, point, value)
    ELSE [t EXCEPT ![n].sumLeft = @ + value]

TreeInsert(t, point, value) == InsertAt(t, 1, point, value)

RECURSIVE LookupAt(_, _, _, _)
LookupAt(t, n, point, sum) ==
    IF n = 0 THEN sum
    ELSE IF point < t[n].pivot THEN LookupAt(t, t[n].left, point, sum)
    ELSE IF point > t[n].pivot
    THEN LookupAt(t, t[n].right, point, sum + t[n].sumLeft)
    ELSE sum + t[n].sumLeft

TreeLookup(t, point) == LookupAt(t, 1, point, 0)

-----------------------------------------------------------------------------
(* Fixes and candidates.                                                    *)
(*                                                                         *)
(* A replacement is a record line, column, endLine, endColumn, precedence, *)
(* insertionPoint, replacement.  A fix is a record with a replacements    *)
(* field; a comment is a record with a fix field.  The absent fix (null or *)
(* undefined) is the record Absent; a comment that has no fix carries      *)
(* Absent in its fix field, or no fix field.                               *)

Absent == [absent |-> TRUE]

\* !fix
Falsy(x) == "absent" \in DOMAIN x

\* x.field is neither undefined nor null
Truthy(x, field) == field \in DOMAIN x /\ ~Falsy(x[field])

Outcome(k, v, r) == [kind |-> k, val |-> v, repl |-> r]

\* The candidate applyFix builds from a replacement whose lines exist.
Candidate(ls, offs, rep) ==
    [start      |-> getOffsetFor(ls, offs, rep.line, rep.column),
     end        |-> getOffsetFor(ls, offs, rep.endLine, rep.endColumn),
     startLine  |-> rep.line,
     endLine    |-> rep.endLine,
     precedence |-> rep.precedence,
     point      |-> rep.insertionPoint,
     text       |-> rep.replacement]

\* Mutant of Conflict: the second comparison reads the candidate's end where
\* the code reads its start.
ConflictOneSided(candidate, existing) ==
    candidate.end > existing.start /\ existing.end > candidate.end

\* The test of applyFix on a candidate and an accepted one.
Conflict(candidate, existing) ==
    candidate.end > existing.start /\ existing.end > candidate.start

\* Mutant of FixLoop: a conflict keeps the candidates built before it.
RECURSIVE FixLoopPartial(_, _, _, _, _, _)
FixLoopPartial(ls, offs, repl, reps, i, candidates) ==
    IF i > Len(reps) THEN Outcome("return", TRUE, repl \o candidates)
    ELSE LET rep == reps[i] IN
         IF ~LineExists(ls, rep.line) \/ ~LineExists(ls, rep.endLine)
         THEN Outcome("throw", "TypeError", repl)
         ELSE LET candidate == Candidate(ls, offs, rep) IN
              IF \E k \in 1..Len(repl) : Conflict(candidate, repl[k])
              THEN Outcome("return", FALSE, repl \o candidates)
              ELSE FixLoopPartial(ls, offs, repl, reps, i + 1,
                                  Append(candidates, candidate))

\* The loop of applyFix over fix.replacements, from the i-th on, with the
\* candidates built so far.
RECURSIVE FixLoop(_, _, _, _, _, _)
FixLoop(ls, offs, repl, reps, i, candidates) ==
    IF i > Len(reps) THEN Outcome("return", TRUE, repl \o candidates)
    ELSE LET rep == reps[i] IN
         IF ~LineExists(ls, rep.line) \/ ~LineExists(ls, rep.endLine)
         THEN Outcome("throw", "TypeError", repl)
         ELSE LET candidate == Candidate(ls, offs, rep) IN
              IF \E k \in 1..Len(repl) : Conflict(candidate, repl[k])
              THEN Outcome("return", FALSE, repl)
              ELSE FixLoop(ls, offs, repl, reps, i + 1, Append(candidates, candidate))

\* Mutant of applyFix: a comment is not unwrapped, its own replacements
\* field is read.
applyFixNoUnwrap(ls, offs, repl, item) ==
    IF Falsy(item) THEN Outcome("return", FALSE, repl)
    ELSE IF "replacements" \notin DOMAIN item
    THEN Outcome("return", FALSE, repl)
    ELSE FixLoop(ls, offs, repl, item.replacements, 1, <<>>)

\* applyFix(item) on the accepted list repl: what it returns or throws, and
\* the accepted list it leaves.
applyFix(ls, offs, repl, item) ==
    IF Falsy(item) THEN Outcome("return", FALSE, repl)
    ELSE LET fix == IF Truthy(item, "fix") THEN item.fix ELSE item IN
         IF Falsy(fix) \/ "replacements" \notin DOMAIN fix
         THEN Outcome("return", FALSE, repl)
         ELSE FixLoop(ls, offs, repl, fix.replacements, 1, <<>>)

\* Mutant of FixesLoop: the test of applyFix's answer is inverted.
RECURSIVE FixesLoopInverted(_, _, _, _, _, _, _)
FixesLoopInverted(ls, offs, repl, fixlist, i, applied, rejected) ==
    IF i > Len(fixlist)
    THEN Outcome("return", [applied |-> applied, rejected |-> rejected], repl)
    ELSE LET o == applyFix(ls, offs, repl, fixlist[i]) IN
         IF o.kind = "throw" THEN o
         ELSE IF ~o.val
         THEN FixesLoopInverted(ls, offs, o.repl, fixlist, i + 1,
                                Append(applied, fixlist[i]), rejected)
         ELSE FixesLoopInverted(ls, offs, o.repl, fixlist, i + 1,
                                applied, Append(rejected, fixlist[i]))

\* Mutant of FixesLoop: the loop ends at the first fix that is rejected.
RECURSIVE FixesLoopBreak(_, _, _, _, _, _, _)
FixesLoopBreak(ls, offs, repl, fixlist, i, applied, rejected) ==
    IF i > Len(fixlist)
    THEN Outcome("return", [applied |-> applied, rejected |-> rejected], repl)
    ELSE LET o == applyFix(ls, offs, repl, fixlist[i]) IN
         IF o.kind = "throw" THEN o
         ELSE IF o.val
         THEN FixesLoopBreak(ls, offs, o.repl, fixlist, i + 1,
                             Append(applied, fixlist[i]), rejected)
         ELSE Outcome("return",
                      [applied |-> applied, rejected |-> Append(rejected, fixlist[i])],
                      o.repl)

\* The loop of applyFixes over fixlist, from the i-th fix on.
RECURSIVE FixesLoop(_, _, _, _, _, _, _)
FixesLoop(ls, offs, repl, fixlist, i, applied, rejected) ==
    IF i > Len(fixlist)
    THEN Outcome("return", [applied |-> applied, rejected |-> rejected], repl)
    ELSE LET o == applyFix(ls, offs, repl, fixlist[i]) IN
         IF o.kind = "throw" THEN o
         ELSE IF o.val
         THEN FixesLoop(ls, offs, o.repl, fixlist, i + 1,
                        Append(applied, fixlist[i]), rejected)
         ELSE FixesLoop(ls, offs, o.repl, fixlist, i + 1,
                        applied, Append(rejected, fixlist[i]))

applyFixes(ls, offs, repl, fixlist) ==
    FixesLoop(ls, offs, repl, fixlist, 1, <<>>, <<>>)

-----------------------------------------------------------------------------
(* Rendering. *)

\* The comparator of the sort: negative when a goes before b.
ComparePrecedence(a, b) == b.precedence - a.precedence

\* Mutant of InsertSorted: an element goes before the elements it compares
\* equal to, so the sort is not stable.
RECURSIVE InsertSortedUnstable(_, _, _)
InsertSortedUnstable(sorted, x, j) ==
    IF j > Len(sorted) THEN Append(sorted, x)
    ELSE IF ComparePrecedence(sorted[j], x) >= 0
    THEN SubSeq(sorted, 1, j - 1) \o <<x>> \o SubSeq(sorted, j, Len(sorted))
    ELSE InsertSortedUnstable(sorted, x, j + 1)

\* Mutant of InsertSorted: the comparator is read as a.precedence -
\* b.precedence, so the sort is ascending.
RECURSIVE InsertSortedAscending(_, _, _)
InsertSortedAscending(sorted, x, j) ==
    IF j > Len(sorted) THEN Append(sorted, x)
    ELSE IF ComparePrecedence(sorted[j], x) < 0
    THEN SubSeq(sorted, 1, j - 1) \o <<x>> \o SubSeq(sorted, j, Len(sorted))
    ELSE InsertSortedAscending(sorted, x, j + 1)

\* Array.prototype.sort is stable: an element goes after every element that
\* does not compare greater than it.
RECURSIVE InsertSorted(_, _, _)
InsertSorted(sorted, x, j) ==
    IF j > Len(sorted) THEN Append(sorted, x)
    ELSE IF ComparePrecedence(sorted[j], x) > 0
    THEN SubSeq(sorted, 1, j - 1) \o <<x>> \o SubSeq(sorted, j, Len(sorted))
    ELSE InsertSorted(sorted, x, j + 1)

RECURSIVE SortFrom(_, _, _)
SortFrom(s, i, sorted) ==
    IF i > Len(s) THEN sorted
    ELSE SortFrom(s, i + 1, InsertSorted(sorted, s[i], 1))

\* this._replacements.sort(function (a,b) { return b.precedence - a.precedence; })
SortReplacements(s) == SortFrom(s, 1, <<>>)

Rendered(k, f, t) == [kind |-> k, file |-> f, tree |-> t]

\* Mutant of applyReplacement: an insertion point that is not afterEnd is
\* taken for beforeStart.
applyReplacementFallback(f, tree, rep) ==
    LET from == rep.start + TreeLookup(tree, rep.start)
        to   == rep.end + TreeLookup(tree, rep.end)
        f1   == Substring(f, 0, from) \o rep.text \o SubstringFrom(f, to)
    IN  IF rep.point = "afterEnd"
        THEN Rendered("return", f1,
                      TreeInsert(tree, rep.end + 1, Len(rep.text) - (to - from)))
        ELSE Rendered("return", f1,
                      TreeInsert(tree, rep.start, Len(rep.text) - (to - from)))

\* applyReplacement(file, tree, rep): the new text and the tree after it, or
\* the throw on an unrecognized insertion point.
applyReplacement(f, tree, rep) ==
    LET from == rep.start + TreeLookup(tree, rep.start)
        to   == rep.end + TreeLookup(tree, rep.end)
        f1   == Substring(f, 0, from) \o rep.text \o SubstringFrom(f, to)
    IN  IF rep.point = "beforeStart"
        THEN Rendered("return", f1,
                      TreeInsert(tree, rep.start, Len(rep.text) - (to - from)))
        ELSE IF rep.point = "afterEnd"
        THEN Rendered("return", f1,
                      TreeInsert(tree, rep.end + 1, Len(rep.text) - (to - from)))
        ELSE Rendered("throw", f, tree)

\* The loop of getResult and getSnippet over the reversed list, from the
\* i-th candidate on.
RECURSIVE RenderLoop(_, _, _, _)
RenderLoop(f, tree, order, i) ==
    IF i > Len(order) THEN Rendered("return", f, tree)
    ELSE LET r == applyReplacement(f, tree, order[i]) IN
         IF r.kind = "throw" THEN r
         ELSE RenderLoop(r.file, r.tree, order, i + 1)

\* The rendering both getResult and getSnippet make of an accepted list.
Render(f, repl) ==
    RenderLoop(f, PrefixSumTree, Reverse(SortReplacements(repl)), 1)

UnrecognizedPoint == "Unrecognized insertion point"
NoFixes == "No fixes have been applied."

\* getResult() on the accepted list repl.
getResult(f, repl) ==
    LET r == Render(f, repl) IN
    IF r.kind = "throw"
    THEN Outcome("throw", UnrecognizedPoint, SortReplacements(repl))
    ELSE Outcome("return", r.file, SortReplacements(repl))

\* The loops of getSnippet that fold the lines of the candidates.
RECURSIVE MinLine(_, _, _)
MinLine(order, i, m) ==
    IF i > Len(order) THEN m
    ELSE MinLine(order, i + 1, Min(m, order[i].startLine))

RECURSIVE MaxLine(_, _, _)
MaxLine(order, i, m) ==
    IF i > Len(order) THEN m
    ELSE MaxLine(order, i + 1, Max(m, order[i].endLine))

\* getSnippet() on the accepted list repl.
getSnippet(f, offs, repl) ==
    IF Len(repl) = 0 THEN Outcome("throw", NoFixes, repl)
    ELSE LET sorted  == SortReplacements(repl)
             order   == Reverse(sorted)
             r       == RenderLoop(f, PrefixSumTree, order, 1)
             minLine == MinLine(order, 1, sorted[1].startLine)
             maxLine == MaxLine(order, 1, sorted[1].endLine)
             startOffset == offs[minLine]
             endOffset   == offs[maxLine + 1]
                            + TreeLookup(r.tree, offs[maxLine + 1])
         IN  IF r.kind = "throw"
             THEN Outcome("throw", UnrecognizedPoint, sorted)
             ELSE Outcome("return", Substring(r.file, startOffset, endOffset), sorted)

\* Mutant of hasModifications: the comparison is off by one.
hasModificationsOffByOne(repl) == Len(repl) > 1

\* hasModifications() on the accepted list repl.
hasModifications(repl) == Len(repl) > 0

-----------------------------------------------------------------------------
(* The source texts and the fixes offered on each.                          *)

Rep(l, c, el, ec, p, pt, t) ==
    [line |-> l, column |-> c, endLine |-> el, endColumn |-> ec,
     precedence |-> p, insertionPoint |-> pt, replacement |-> t]

Fix(reps) == [replacements |-> reps]
Comment(code, reps) == [code |-> code, fix |-> Fix(reps)]

OrExit == <<" ", "|", "|", " ", "e", "x", "i", "t">>
Quote == <<"\"">>

\* cd $1 and the two comments of the first test.
CdText == <<"c", "d", " ", "$", "1">>
CdExit == Comment(2164, <<Rep(1, 6, 1, 6, 5, "beforeStart", OrExit)>>)
CdQuote ==
    Comment(2086, <<Rep(1, 4, 1, 4, 7, "afterEnd", Quote),
                    Rep(1, 6, 1, 6, 7, "beforeStart", Quote)>>)
\* An insertion at the end of the line, alone in its fix.
CdSemicolon == Rep(1, 6, 1, 6, 7, "beforeStart", <<";">>)
\* An insertion whose insertionPoint is neither beforeStart nor afterEnd.
CdAfterStart == Fix(<<Rep(1, 1, 1, 1, 5, "afterStart", <<"#">>)>>)
\* A replacement on line 2 of a text of one line.
CdOutside == Fix(<<Rep(2, 1, 2, 1, 5, "beforeStart", <<"#">>)>>)
CdFixes ==
    {CdExit, CdQuote,
     Fix(<<Rep(1, 4, 1, 6, 7, "beforeStart", <<"$", "{", "1", "}">>)>>),
     Fix(<<Rep(1, 1, 1, 3, 5, "afterEnd", <<"p", "u", "s", "h", "d">>)>>),
     Fix(<<CdSemicolon>>),
     CdAfterStart,
     CdOutside,
     Fix(<<>>),
     [code |-> 1000],
     Absent}

\* foo, cd foo, bar and the fix of the third test.
SnippetText ==
    <<"f", "o", "o", "\n", "c", "d", " ", "f", "o", "o", "\n", "b", "a", "r", "\n">>
SnippetExit == Fix(<<Rep(2, 7, 2, 7, 5, "beforeStart", OrExit)>>)
SnippetFixes ==
    {SnippetExit,
     Fix(<<Rep(2, 4, 2, 4, 7, "afterEnd", Quote),
           Rep(2, 7, 2, 7, 7, "beforeStart", Quote)>>),
     Fix(<<Rep(2, 1, 2, 7, 7, "beforeStart", <<":">>)>>),
     Fix(<<Rep(1, 4, 2, 1, 5, "beforeStart", <<";">>)>>),
     Fix(<<Rep(3, 1, 3, 4, 5, "beforeStart", <<>>)>>),
     Fix(<<Rep(3, 1, 3, 1, 7, "beforeStart", <<"#">>)>>)}

\* A two-line text and every single replacement of a span and a style on
\* its first line, with the two-part fixes that add the deletion of b.
PlainText == <<"a", "b", "\n", "c", "d">>
PlainSpans == {<<1, 1, 1, 2>>, <<1, 2, 1, 2>>, <<1, 2, 1, 3>>}
PlainStyles ==
    {<<5, "beforeStart", <<"X">>>>, <<5, "afterEnd", <<"Y", "Z">>>>,
     <<7, "beforeStart", <<>>>>, <<7, "afterEnd", <<"W">>>>}
PlainRep(sp, st) == Rep(sp[1], sp[2], sp[3], sp[4], st[1], st[2], st[3])
DeleteB == PlainRep(<<1, 2, 1, 3>>, <<7, "beforeStart", <<>>>>)
PlainPairs ==
    {Fix(<<PlainRep(sp, <<7, "afterEnd", <<"W">>>>), DeleteB>>) : sp \in PlainSpans}
PlainFixes ==
    {Fix(<<PlainRep(sp, st)>>) : sp \in PlainSpans, st \in PlainStyles}
    \cup PlainPairs

SourceTexts == {CdText, SnippetText, PlainText}

\* ls and a newline (two lines, the second empty), with well-formed fixes
\* and with the fix data applyFix has to guard against.
LsText == <<"l", "s", "\n">>
LsSemicolon == Rep(1, 2, 1, 3, 5, "beforeStart", <<";">>)
LsInsert == Fix(<<LsSemicolon>>)
LsComment == Comment(2000, <<Rep(1, 1, 1, 2, 7, "afterEnd", <<"c", "d">>)>>)
LsOverlap == Fix(<<Rep(1, 1, 1, 3, 5, "beforeStart", <<>>)>>)
\* A replacement of the newline whose insertionPoint is neither beforeStart
\* nor afterEnd.
LsAfterStart == Fix(<<Rep(1, 3, 2, 1, 5, "afterStart", <<"#">>)>>)
\* Replacements on line 3 of a text of two lines.
LsOutside == Fix(<<Rep(3, 1, 3, 1, 5, "beforeStart", <<"#">>)>>)
LsHalfOutside == Fix(<<LsSemicolon, Rep(1, 1, 3, 1, 5, "beforeStart", <<"#">>)>>)
\* Comments without a fix, a comment whose fix is null with replacements
\* of its own, and one with replacements of its own whose fix has none.
LsNoFix == [code |-> 1000]
LsNullFix == [code |-> 1000, fix |-> Absent]
LsNullFixOwn == [fix |-> Absent, replacements |-> <<LsSemicolon>>]
LsBareFixOwn == [fix |-> [code |-> 1000], replacements |-> <<LsSemicolon>>]
LsFixes ==
    {LsInsert, LsComment, LsOverlap, LsAfterStart, LsOutside, LsHalfOutside,
     Fix(<<>>), LsNoFix, LsNullFix, LsNullFixOwn, LsBareFixOwn, Absent}
LsBatchFixes == {LsInsert, LsOutside, Absent}

\* The fixes offered to applyFix on a text.
FixesOf(f) ==
    IF f = CdText THEN CdFixes
    ELSE IF f = SnippetText THEN SnippetFixes
    ELSE IF f = LsText THEN LsFixes
    ELSE PlainFixes

\* The fixes applyFixes is offered lists of.
BatchFixesOf(f) ==
    IF f = CdText THEN {CdExit, CdQuote}
    ELSE IF f = LsText THEN LsBatchFixes
    ELSE IF f = SnippetText THEN SnippetFixes
    ELSE {Fix(<<PlainRep(<<1, 1, 1, 2>>, <<5, "afterEnd", <<"Y", "Z">>>>)>>),
          Fix(<<PlainRep(<<1, 2, 1, 3>>, <<5, "beforeStart", <<"X">>>>)>>),
          Fix(<<PlainRep(<<1, 2, 1, 2>>, <<7, "afterEnd", <<"W">>>>), DeleteB>>)}

BatchesOf(f) == UNION {[1..n -> BatchFixesOf(f)] : n \in 0..MaxBatch}

\* The replacements a fix or comment carries.
RepsOf(item) ==
    LET fix == IF Truthy(item, "fix") THEN item.fix ELSE item
    IN  IF "replacements" \in DOMAIN fix THEN fix.replacements ELSE <<>>

RECURSIVE CountReps(_, _)
CountReps(fixlist, i) ==
    IF i > Len(fixlist) THEN 0
    ELSE Len(RepsOf(fixlist[i])) + CountReps(fixlist, i + 1)

-----------------------------------------------------------------------------
(* The session. *)

Returned(v) == [kind |-> "return", val |-> v]
Threw(v) == [kind |-> "throw", val |-> v]
Result(o) == [kind |-> o.kind, val |-> o.val]

\* new AutoFixer(file)
Init ==
    /\ file \in SourceTexts
    /\ lines = SplitLines(file)
    /\ lineOffsets = getLineOffsets(lines)
    /\ replacements = <<>>
    /\ op = "new"
    /\ arg = <<>>
    /\ ret = Returned(<<>>)
    /\ submitted = <<>>
    /\ tracker = PrefixSumTree
    /\ inserted = <<>>

\* new AutoFixer(file) on the text the guards of applyFix are exercised on.
InitMalformed ==
    /\ file = LsText
    /\ lines = SplitLines(file)
    /\ lineOffsets = getLineOffsets(lines)
    /\ replacements = <<>>
    /\ op = "new"
    /\ arg = <<>>
    /\ ret = Returned(<<>>)
    /\ submitted = <<>>
    /\ tracker = PrefixSumTree
    /\ inserted = <<>>

\* The groups of candidates the accepted fixes of a list add.
RECURSIVE Groups(_, _, _)
Groups(ls, offs, fixlist) ==
    IF fixlist = <<>> THEN <<>>
    ELSE <<[k \in 1..Len(RepsOf(Head(fixlist))) |->
               Candidate(ls, offs, RepsOf(Head(fixlist))[k])]>>
         \o Groups(ls, offs, Tail(fixlist))

ApplyFix(item) ==
    /\ Len(replacements) + Len(RepsOf(item)) <= MaxAccepted
    /\ Len(submitted) + 1 <= MaxAccepted
    /\ LET o == applyFix(lines, lineOffsets, replacements, item) IN
       /\ replacements' = o.repl
       /\ ret' = Result(o)
       /\ submitted' = IF o.kind = "return" /\ o.val
                       THEN submitted \o Groups(lines, lineOffsets, <<item>>)
                       ELSE submitted
    /\ op' = "applyFix"
    /\ arg' = item
    /\ UNCHANGED <<file, lines, lineOffsets, tracker, inserted>>

ApplyFixes(fixlist) ==
    /\ Len(replacements) + CountReps(fixlist, 1) <= MaxAccepted
    /\ Len(submitted) + Len(fixlist) <= MaxAccepted
    /\ LET o == applyFixes(lines, lineOffsets, replacements, fixlist) IN
       /\ replacements' = o.repl
       /\ ret' = Result(o)
       /\ submitted' = IF o.kind = "return"
                       THEN submitted \o Groups(lines, lineOffsets, o.val.applied)
                       ELSE submitted
    /\ op' = "applyFixes"
    /\ arg' = fixlist
    /\ UNCHANGED <<file, lines, lineOffsets, tracker, inserted>>

GetResult ==
    /\ LET o == getResult(file, replacements) IN
       /\ replacements' = o.repl
       /\ ret' = Result(o)
    /\ op' = "getResult"
    /\ arg' = <<>>
    /\ UNCHANGED <<file, lines, lineOffsets, submitted, tracker, inserted>>

GetSnippet ==
    /\ LET o == getSnippet(file, lineOffsets, replacements) IN
       /\ replacements' = o.repl
       /\ ret' = Result(o)
    /\ op' = "getSnippet"
    /\ arg' = <<>>
    /\ UNCHANGED <<file, lines, lineOffsets, submitted, tracker, inserted>>

HasModifications ==
    /\ ret' = Returned(hasModifications(replacements))
    /\ op' = "hasModifications"
    /\ arg' = <<>>
    /\ UNCHANGED <<file, lines, lineOffsets, replacements, submitted, tracker, inserted>>

\* Mutant of Reset: the accepted list is left as it was.
ResetKeepsAccepted ==
    /\ replacements' = replacements
    /\ submitted' = submitted
    /\ ret' = Returned(<<>>)
    /\ op' = "reset"
    /\ arg' = <<>>
    /\ UNCHANGED <<file, lines, lineOffsets, tracker, inserted>>

Reset ==
    /\ replacements' = <<>>
    /\ submitted' = <<>>
    /\ ret' = Returned(<<>>)
    /\ op' = "reset"
    /\ arg' = <<>>
    /\ UNCHANGED <<file, lines, lineOffsets, tracker, inserted>>

Next ==
    \/ \E item \in FixesOf(file) : ApplyFix(item)
    \/ \E fixlist \in BatchesOf(file) : ApplyFixes(fixlist)
    \/ GetResult
    \/ GetSnippet
    \/ HasModifications
    \/ Reset

Spec == Init /\ [][Next]_vars

SpecMalformed == InitMalformed /\ [][Next]_vars

-----------------------------------------------------------------------------
(* The prefix-sum tree on its own: insert, lookup and reset called on one   *)
(* PrefixSumTree object, beside a session on the empty text.               *)

\* Points inserted and looked up are 0..MaxPoint, and MaxPoint + 1 is
\* looked up as well.
MaxPoint == 3

\* insert is offered while fewer than this many pairs were inserted since
\* the last reset of the tree.
MaxInserts == 3

\* The values inserted.
Deltas == {-2, 1, 3}

InitTree ==
    /\ file = <<>>
    /\ lines = SplitLines(file)
    /\ lineOffsets = getLineOffsets(lines)
    /\ replacements = <<>>
    /\ op = "new"
    /\ arg = <<>>
    /\ ret = Returned(<<>>)
    /\ submitted = <<>>
    /\ tracker = PrefixSumTree
    /\ inserted = <<>>

\* tree.insert(point, value)
TrackerInsert(point, value) ==
    /\ Len(inserted) < MaxInserts
    /\ tracker' = TreeInsert(tracker, point, value)
    /\ inserted' = Append(inserted, <<point, value>>)
    /\ op' = "insert"
    /\ arg' = <<point, value>>
    /\ ret' = Returned(<<>>)
    /\ UNCHANGED <<file, lines, lineOffsets, replacements, submitted>>

\* tree.lookup(point)
TrackerLookup(point) ==
    /\ ret' = Returned(TreeLookup(tracker, point))
    /\ op' = "lookup"
    /\ arg' = <<point>>
    /\ UNCHANGED <<file, lines, lineOffsets, replacements, submitted,
                   tracker, inserted>>

\* tree.reset()
TrackerReset ==
    /\ tracker' = PrefixSumTree
    /\ inserted' = <<>>
    /\ op' = "treeReset"
    /\ arg' = <<>>
    /\ ret' = Returned(<<>>)
    /\ UNCHANGED <<file, lines, lineOffsets, replacements, submitted>>

NextTree ==
    \/ \E point \in 0..MaxPoint, value \in Deltas : TrackerInsert(point, value)
    \/ \E point \in 0..(MaxPoint + 1) : TrackerLookup(point)
    \/ TrackerReset

SpecTree == InitTree /\ [][NextTree]_vars

-----------------------------------------------------------------------------
(* The line index and the tab stops on their own: sessions on every short  *)
(* text of letters, tabs and newlines, and the two functions that resolve  *)
(* a line and column of such a session.                                    *)

\* The texts have at most this many characters.
MaxLen == 3

\* The columns asked for are 1..MaxColumn.
MaxColumn == 10

Alphabet == {"a", "\t", "\n"}

IndexTexts == UNION {[1..n -> Alphabet] : n \in 0..MaxLen}

InitIndex ==
    /\ file \in IndexTexts
    /\ lines = SplitLines(file)
    /\ lineOffsets = getLineOffsets(lines)
    /\ replacements = <<>>
    /\ op = "new"
    /\ arg = <<>>
    /\ ret = Returned(<<>>)
    /\ submitted = <<>>
    /\ tracker = PrefixSumTree
    /\ inserted = <<>>

\* adjustTabStops.call(this, lineNo, columnNo) on a line of the text
AdjustTabStops(lineNo, columnNo) ==
    /\ LineExists(lines, lineNo)
    /\ ret' = Returned(adjustTabStops(lines, lineNo, columnNo))
    /\ op' = "adjustTabStops"
    /\ arg' = <<lineNo, columnNo>>
    /\ UNCHANGED <<file, lines, lineOffsets, replacements, submitted,
                   tracker, inserted>>

\* getOffsetFor.call(this, line, col) on a line of the text
GetOffsetFor(line, col) ==
    /\ LineExists(lines, line)
    /\ ret' = Returned(getOffsetFor(lines, lineOffsets, line, col))
    /\ op' = "getOffsetFor"
    /\ arg' = <<line, col>>
    /\ UNCHANGED <<file, lines, lineOffsets, replacements, submitted,
                   tracker, inserted>>

NextIndex ==
    \/ \E lineNo \in 1..(MaxLen + 1), columnNo \in 1..MaxColumn :
           AdjustTabStops(lineNo, columnNo)
    \/ \E line \in 1..(MaxLen + 1), col \in 1..MaxColumn : GetOffsetFor(line, col)

SpecIndex == InitIndex /\ [][NextIndex]_vars

-----------------------------------------------------------------------------
(* Notions the properties are stated in. *)

\* The half-open interval test of the specification.
Overlaps(c, e) == c.end > e.start /\ e.end > c.start

RECURSIVE Flatten(_)
Flatten(groups) ==
    IF groups = <<>> THEN <<>> ELSE Head(groups) \o Flatten(Tail(groups))

\* The candidates, in the given order, of a fix whose lines all exist.
CandidatesOf(item) ==
    [k \in 1..Len(RepsOf(item)) |-> Candidate(lines, lineOffsets, RepsOf(item)[k])]

LinesExist(item) ==
    \A k \in 1..Len(RepsOf(item)) :
        /\ LineExists(lines, RepsOf(item)[k].line)
        /\ LineExists(lines, RepsOf(item)[k].endLine)

\* No two candidates of the list overlap.
NoOverlap(repl) ==
    \A i, j \in 1..Len(repl) : i # j => ~Overlaps(repl[i], repl[j])

Orderings(n) ==
    {p \in [1..n -> 1..n] : \A i, j \in 1..n : i # j => p[i] # p[j]}

\* The orders of the list in which each candidate ends where the next
\* starts, or before.
Chains(repl) ==
    {[i \in 1..Len(repl) |-> repl[p[i]]] : p \in
        {q \in Orderings(Len(repl)) :
            \A i \in 1..(Len(repl) - 1) : repl[q[i]].end <= repl[q[i + 1]].start}}

\* The text f from offset pos on, with the span of each candidate of the
\* chain, from the i-th on, replaced by the candidate's text.
RECURSIVE Patched(_, _, _, _)
Patched(f, chain, i, pos) ==
    IF i > Len(chain) THEN SubSeq(f, pos + 1, Len(f))
    ELSE SubSeq(f, pos + 1, chain[i].start) \o chain[i].text
         \o Patched(f, chain, i + 1, chain[i].end)

\* The texts that are f with every accepted span replaced by its text.
PatchedTexts(f, repl) == {Patched(f, chain, 1, 0) : chain \in Chains(repl)}

RECURSIVE SumDeltas(_, _)
SumDeltas(repl, i) ==
    IF i > Len(repl) THEN 0
    ELSE Len(repl[i].text) - (repl[i].end - repl[i].start) + SumDeltas(repl, i + 1)

-----------------------------------------------------------------------------
(* C1 *)

CdExpected ==
    <<"c", "d", " ", "\"", "$", "1", "\"", " ", "|", "|", " ", "e", "x", "i", "t">>

ZeroBefore(c) == c.start = c.end /\ c.point = "beforeStart"

\* C1: when the accepted candidates are two zero-width beforeStart
\* insertions at one offset, getResult returns the text with the
\* higher-precedence insertion first and the lower-precedence one right
\* after it; and after the two comments of the first test are accepted on
\* cd $1, getResult returns cd "$1" || exit.
C1_HigherPrecedenceFirst ==
    (op = "getResult" /\ ret.kind = "return") =>
        /\ \A hi, lo \in 1..Len(replacements) :
               (/\ Len(replacements) = 2
                /\ ZeroBefore(replacements[hi]) /\ ZeroBefore(replacements[lo])
                /\ replacements[hi].start = replacements[lo].start
                /\ replacements[hi].precedence > replacements[lo].precedence)
               => ret.val = SubSeq(file, 1, replacements[hi].start)
                            \o replacements[hi].text \o replacements[lo].text
                            \o SubSeq(file, replacements[hi].start + 1, Len(file))
        /\ (file = CdText /\ submitted = <<CandidatesOf(CdExit), CandidatesOf(CdQuote)>>)
               => ret.val = CdExpected

-----------------------------------------------------------------------------
(* C2 *)

\* C2: when no two accepted candidates overlap, getResult returns the
\* source text with the span of every accepted candidate replaced by the
\* candidate's text and every other character kept in order.
C2_ResultIsPatchedText ==
    (op = "getResult" /\ ret.kind = "return" /\ NoOverlap(replacements)) =>
        ret.val \in PatchedTexts(file, replacements)

-----------------------------------------------------------------------------
(* C3 *)

\* C3: a call of applyFix on a fix whose replacements lie on lines of the
\* text returns true exactly when no candidate of the fix overlaps an
\* accepted candidate; it then leaves the accepted list followed by the
\* candidates of the fix in their order, and otherwise leaves the list as
\* it was.
C3_AtomicAdmission ==
    [][(op' = "applyFix" /\ ~Falsy(arg') /\ RepsOf(arg') # <<>> /\ LinesExist(arg')) =>
        LET cands == CandidatesOf(arg')
            free  == \A i \in 1..Len(cands), k \in 1..Len(replacements) :
                        ~Overlaps(cands[i], replacements[k])
        IN  /\ ret'.kind = "return"
            /\ ret'.val = free
            /\ free => replacements' = replacements \o cands
            /\ ~free => replacements' = replacements]_vars

\* A fix of two replacements was rejected on its second candidate alone.
C3_Witness ==
    /\ op = "applyFix" /\ ret = Returned(FALSE)
    /\ Len(RepsOf(arg)) = 2
    /\ \A k \in 1..Len(replacements) : ~Overlaps(CandidatesOf(arg)[1], replacements[k])
    /\ \E k \in 1..Len(replacements) : Overlaps(CandidatesOf(arg)[2], replacements[k])

-----------------------------------------------------------------------------
(* C4 *)

\* C4, as stated: no two accepted candidates overlap.
C4_PairwiseDisjoint == NoOverlap(replacements)

\* The accepted list holds the candidates of the accepted fixes.
SameCandidates(a, b) ==
    /\ Len(a) = Len(b)
    /\ \A c \in {a[i] : i \in 1..Len(a)} \cup {b[i] : i \in 1..Len(b)} :
           Cardinality({i \in 1..Len(a) : a[i] = c})
               = Cardinality({i \in 1..Len(b) : b[i] = c})

\* C4, amended: the accepted list holds exactly the candidates of the
\* fixes accepted since the last reset, and no candidate of one accepted
\* fix overlaps a candidate of another.
C4_DisjointAcrossFixes ==
    /\ SameCandidates(replacements, Flatten(submitted))
    /\ \A g, h \in 1..Len(submitted) : g # h =>
           \A i \in 1..Len(submitted[g]), j \in 1..Len(submitted[h]) :
               ~Overlaps(submitted[g][i], submitted[h][j])

\* Two fixes are accepted, with candidates that touch.
C4_Witness ==
    /\ Len(submitted) >= 2
    /\ \E i \in 1..Len(submitted[1]), j \in 1..Len(submitted[2]) :
           /\ submitted[1][i].end = submitted[2][j].start
           /\ submitted[1][i].start < submitted[1][i].end
           /\ submitted[2][j].start < submitted[2][j].end

-----------------------------------------------------------------------------
(* C5 *)

\* C5: when no two accepted candidates overlap, the text getResult returns
\* is as long as the source text plus, for every accepted candidate, the
\* length of its text less the length of its span.
C5_LengthLaw ==
    (op = "getResult" /\ ret.kind = "return" /\ NoOverlap(replacements)) =>
        Len(ret.val) = Len(file) + SumDeltas(replacements, 1)

-----------------------------------------------------------------------------
(* C6 *)

\* C6: rendering leaves no trace in what the session does next.  The order
\* in which the accepted candidates are spliced, and so the text getResult
\* and getSnippet return, is the one the fixes accepted since the last
\* reset give when no rendering ever sorted the list; a second getResult
\* right after a first returns the same text; and applyFix answers as it
\* would on the list no rendering ever sorted.
C6_RenderingLeavesNoTrace ==
    /\ [](/\ SortReplacements(replacements) = SortReplacements(Flatten(submitted))
          /\ op = "getResult" =>
                 ret = Result(getResult(file, Flatten(submitted)))
          /\ op = "getSnippet" =>
                 ret = Result(getSnippet(file, lineOffsets, Flatten(submitted))))
    /\ [][/\ (op = "getResult" /\ op' = "getResult") => ret' = ret
          /\ op' = "applyFix" =>
                 ret' = Result(applyFix(lines, lineOffsets, Flatten(submitted), arg'))]_vars

\* A fix was accepted after a rendering had reordered the accepted list,
\* which holds two insertions of one precedence at one offset with
\* different texts.
C6_Witness ==
    /\ op = "applyFix" /\ ret = Returned(TRUE)
    /\ replacements # Flatten(submitted)
    /\ \E i, j \in 1..Len(replacements) :
           /\ replacements[i].start = replacements[j].start
           /\ replacements[i].end = replacements[j].end
           /\ replacements[i].start = replacements[i].end
           /\ replacements[i].precedence = replacements[j].precedence
           /\ replacements[i].text # replacements[j].text

-----------------------------------------------------------------------------
(* C7 *)

\* Some candidate of one fix overlaps some candidate of the other.
FixesOverlap(a, b) ==
    \E i \in 1..Len(RepsOf(a)), j \in 1..Len(RepsOf(b)) :
        Overlaps(CandidatesOf(a)[i], CandidatesOf(b)[j])

\* C7: applyFixes on two fixes that overlap each other, called while
\* nothing is accepted, applies the first and rejects the second, whichever
\* of the two comes first.
C7_OrderSensitivity ==
    [][(/\ op' = "applyFixes" /\ replacements = <<>> /\ Len(arg') = 2
        /\ LinesExist(arg'[1]) /\ LinesExist(arg'[2])
        /\ FixesOverlap(arg'[1], arg'[2]))
       => /\ ret' = Returned([applied |-> <<arg'[1]>>, rejected |-> <<arg'[2]>>])
          /\ replacements' = CandidatesOf(arg'[1])]_vars

\* Two different fixes that overlap each other were submitted to a session
\* with nothing accepted: the first is applied, the second rejected.
C7_Witness ==
    /\ op = "applyFixes" /\ Len(arg) = 2 /\ arg[1] # arg[2]
    /\ FixesOverlap(arg[1], arg[2])
    /\ ret = Returned([applied |-> <<arg[1]>>, rejected |-> <<arg[2]>>])
    /\ replacements = CandidatesOf(arg[1])

-----------------------------------------------------------------------------
(* C8 *)

\* The accepted list after applyFix was called on the first n fixes of the
\* list in turn, starting from the accepted list repl.
RECURSIVE AcceptedAfter(_, _, _)
AcceptedAfter(repl, fixlist, n) ==
    IF n = 0 THEN repl
    ELSE applyFix(lines, lineOffsets, AcceptedAfter(repl, fixlist, n - 1),
                  fixlist[n]).repl

\* What applyFix returns on the n-th fix in that sequence of calls.
AnswerAt(repl, fixlist, n) ==
    applyFix(lines, lineOffsets, AcceptedAfter(repl, fixlist, n - 1), fixlist[n]).val

\* The subsequence of the fixes whose call answered b.
RECURSIVE Answered(_, _, _, _)
Answered(repl, fixlist, b, n) ==
    IF n > Len(fixlist) THEN <<>>
    ELSE (IF AnswerAt(repl, fixlist, n) = b THEN <<fixlist[n]>> ELSE <<>>)
         \o Answered(repl, fixlist, b, n + 1)

\* C8: applyFixes on fixes whose replacements lie on lines of the text
\* leaves the accepted list that calls of applyFix on each fix in turn
\* leave, and returns as applied the fixes whose call returned true and as
\* rejected the others, each in input order.
C8_BatchIsSequence ==
    [][(op' = "applyFixes" /\ \A n \in 1..Len(arg') : LinesExist(arg'[n])) =>
        /\ ret'.kind = "return"
        /\ replacements' = AcceptedAfter(replacements, arg', Len(arg'))
        /\ ret'.val.applied = Answered(replacements, arg', TRUE, 1)
        /\ ret'.val.rejected = Answered(replacements, arg', FALSE, 1)
        /\ Len(ret'.val.applied) + Len(ret'.val.rejected) = Len(arg')]_vars

\* A list of two fixes had its first fix rejected and its second applied.
C8_Witness ==
    /\ op = "applyFixes" /\ Len(arg) = 2
    /\ ret = Returned([applied |-> <<arg[2]>>, rejected |-> <<arg[1]>>])
    /\ arg[1] # arg[2]

-----------------------------------------------------------------------------
(* C9 *)

RECURSIVE LowestStartLine(_, _)
LowestStartLine(repl, i) ==
    IF i = Len(repl) THEN repl[i].startLine
    ELSE Min(repl[i].startLine, LowestStartLine(repl, i + 1))

RECURSIVE HighestEndLine(_, _)
HighestEndLine(repl, i) ==
    IF i = Len(repl) THEN repl[i].endLine
    ELSE Max(repl[i].endLine, HighestEndLine(repl, i + 1))

\* The patched texts of the accepted list, cut to the lines minLine to
\* maxLine of the source: from the start of line minLine to just after the
\* newline that ends line maxLine, or to the end of the text.
PatchedLines(f, offs, repl) ==
    LET a == offs[LowestStartLine(repl, 1)]
        b == Min(offs[HighestEndLine(repl, 1) + 1], Len(f))
    IN  {SubSeq(t, a + 1, Len(t)) : t \in PatchedTexts(SubSeq(f, 1, b), repl)}

SnippetExpected ==
    <<"c", "d", " ", "f", "o", "o", " ", "|", "|", " ", "e", "x", "i", "t", "\n">>

\* C9: when no two accepted candidates overlap, getSnippet returns the
\* patched lines from the lowest start line to the highest end line of the
\* accepted candidates, with every edit and nothing of another line; on
\* foo, cd foo, bar with the fix of the third test it returns cd foo || exit
\* and the newline.
C9_SnippetIsPatchedLines ==
    (op = "getSnippet" /\ ret.kind = "return" /\ NoOverlap(replacements)) =>
        /\ ret.val \in PatchedLines(file, lineOffsets, replacements)
        /\ (file = SnippetText /\ submitted = <<CandidatesOf(SnippetExit)>>)
               => ret.val = SnippetExpected

-----------------------------------------------------------------------------
(* C10 *)

\* C10: hasModifications returns true exactly when a candidate is
\* accepted, and getSnippet throws that no fixes have been applied exactly
\* when none is; neither changes the session.
C10_NoFixesError ==
    [][/\ op' = "hasModifications" =>
              /\ ret' = Returned(replacements # <<>>)
              /\ UNCHANGED <<file, lines, lineOffsets, replacements>>
       /\ op' = "getSnippet" =>
              /\ (ret' = Threw(NoFixes)) = (replacements = <<>>)
              /\ ret' = Threw(NoFixes) =>
                     UNCHANGED <<file, lines, lineOffsets, replacements>>
       /\ (op = "hasModifications" /\ op' = "getSnippet") =>
              (ret' = Threw(NoFixes)) = (ret = Returned(FALSE))]_vars

\* getSnippet threw that no fixes have been applied.
C10_Witness ==
    /\ op = "getSnippet" /\ ret = Threw(NoFixes)
    /\ replacements = <<>>

-----------------------------------------------------------------------------
(* C11 *)

\* C11: reset empties the accepted list and leaves the source text, its
\* lines and the line offsets as they were, so that the session is the one
\* new AutoFixer builds on the same text; right after reset
\* hasModifications returns false, getResult returns the source text,
\* applyFix accepts every fix whose replacements lie on lines of the text,
\* the fixes rejected before for an overlap among them, and every
\* operation answers as it does on a session with nothing accepted.
C11_ResetFrame ==
    /\ [](op = "reset" =>
              /\ replacements = <<>>
              /\ lines = SplitLines(file)
              /\ lineOffsets = getLineOffsets(SplitLines(file)))
    /\ [][/\ op' = "reset" =>
                 /\ replacements' = <<>>
                 /\ UNCHANGED <<file, lines, lineOffsets>>
          /\ (op = "reset" /\ op' = "hasModifications") => ret' = Returned(FALSE)
          /\ (op = "reset" /\ op' = "getResult") =>
                 /\ ret' = Returned(file)
                 /\ replacements' = <<>>
          /\ (op = "reset" /\ op' = "getSnippet") => ret' = Threw(NoFixes)
          /\ (op = "reset" /\ op' = "applyFix") =>
                 /\ ret' = Result(applyFix(SplitLines(file),
                                           getLineOffsets(SplitLines(file)), <<>>, arg'))
                 /\ (~Falsy(arg') /\ RepsOf(arg') # <<>> /\ LinesExist(arg')) =>
                        /\ ret' = Returned(TRUE)
                        /\ replacements' = CandidatesOf(arg')]_vars

\* reset was called and left a session with nothing accepted.
C11_Witness ==
    /\ op = "reset"
    /\ replacements = <<>>
    /\ ~hasModifications(replacements)

-----------------------------------------------------------------------------
(* C12 *)

\* The record carries a replacements field.
Carries(x) == ~Falsy(x) /\ "replacements" \in DOMAIN x

\* Neither the fix nor its nested fix carries replacements.
NeitherCarries(item) ==
    ~Carries(item) /\ ~("fix" \in DOMAIN item /\ Carries(item.fix))

\* The fix is absent, carries no replacements, or has a replacement on a
\* line that is not a line of the text.
Malformed(item) ==
    Falsy(item) \/ NeitherCarries(item) \/ ~LinesExist(item)

\* C12: applyFix on an absent fix, on a fix without replacements or on a
\* fix with a replacement on a line outside the text returns false, throws
\* nothing and leaves the accepted list as it was; applyFixes throws
\* nothing and returns every such fix of its list in the rejected list.
C12_MalformedRejected ==
    [][/\ (op' = "applyFix" /\ Malformed(arg')) =>
              /\ ret' = Returned(FALSE)
              /\ replacements' = replacements
       /\ op' = "applyFixes" =>
              /\ ret'.kind = "return"
              /\ \A n \in 1..Len(arg') : Malformed(arg'[n]) =>
                     \E k \in 1..Len(ret'.val.rejected) : ret'.val.rejected[k] = arg'[n]]_vars

-----------------------------------------------------------------------------
(* C13 *)

\* The record applyFix reads the replacements of: the nested fix when the
\* item has one that is not null, the item itself otherwise.
Examined(item) == IF Truthy(item, "fix") THEN item.fix ELSE item

\* No candidate of the fix overlaps an accepted candidate.
Free(item) ==
    \A i \in 1..Len(RepsOf(item)), k \in 1..Len(replacements) :
        ~Overlaps(CandidatesOf(item)[i], replacements[k])

\* C13, as stated: applyFix returns false, throws nothing and leaves the
\* accepted list as it was when the fix is absent or neither the fix nor
\* its nested fix carries replacements; when either of the two carries
\* replacements, all on lines of the text and none overlapping an accepted
\* candidate, applyFix returns true.
C13_EitherCarries ==
    [][op' = "applyFix" =>
          IF Falsy(arg') \/ NeitherCarries(arg')
          THEN ret' = Returned(FALSE) /\ replacements' = replacements
          ELSE (LinesExist(arg') /\ Free(arg')) => ret' = Returned(TRUE)]_vars

\* C13, amended: applyFix returns false, throws nothing and leaves the
\* accepted list as it was when the fix is absent or the record it examines
\* (the nested fix when there is one that is not null, the fix itself
\* otherwise) carries no replacements; when the examined record carries
\* replacements, all on lines of the text and none overlapping an accepted
\* candidate, applyFix returns true and appends their candidates.
C13_ExaminedCarries ==
    [][op' = "applyFix" =>
          IF Falsy(arg') \/ ~Carries(Examined(arg'))
          THEN ret' = Returned(FALSE) /\ replacements' = replacements
          ELSE (LinesExist(arg') /\ Free(arg')) =>
                   /\ ret' = Returned(TRUE)
                   /\ replacements' = replacements \o CandidatesOf(arg')]_vars

\* A fix with replacements of its own and a nested fix without any was
\* rejected by a session with nothing accepted.
C13_Witness ==
    /\ op = "applyFix" /\ ret = Returned(FALSE)
    /\ Carries(arg) /\ Truthy(arg, "fix") /\ ~Carries(arg.fix)
    /\ replacements = <<>>

-----------------------------------------------------------------------------
(* C14 *)

Recognized(c) == c.point \in {"beforeStart", "afterEnd"}

HasUnrecognized(repl) == \E k \in 1..Len(repl) : ~Recognized(repl[k])

\* C14: applyFix accepts a fix whose insertion point is neither beforeStart
\* nor afterEnd when none of its candidates overlaps an accepted one; while
\* the accepted list holds such a candidate, getResult and getSnippet throw
\* the unrecognized insertion point error and leave the accepted list with
\* the same candidates, and no operation but reset removes the candidate;
\* reset removes it, and with no such candidate accepted getResult returns
\* a text, and so does getSnippet when a candidate is accepted.
C14_UnrecognizedPoint ==
    /\ [](/\ (op \in {"getResult", "getSnippet"} /\ HasUnrecognized(replacements)) =>
                 ret = Threw(UnrecognizedPoint)
          /\ (op = "getResult" /\ ~HasUnrecognized(replacements)) =>
                 ret.kind = "return"
          /\ (op = "getSnippet" /\ ~HasUnrecognized(replacements)
                 /\ replacements # <<>>) => ret.kind = "return")
    /\ [][/\ (op' = "applyFix" /\ ~Falsy(arg') /\ LinesExist(arg') /\ Free(arg')
                 /\ \E i \in 1..Len(RepsOf(arg')) :
                        ~Recognized(CandidatesOf(arg')[i])) =>
                 /\ ret' = Returned(TRUE)
                 /\ replacements' = replacements \o CandidatesOf(arg')
          /\ op' \in {"getResult", "getSnippet"} =>
                 SameCandidates(replacements', replacements)
          /\ (HasUnrecognized(replacements) /\ op' # "reset") =>
                 HasUnrecognized(replacements')
          /\ op' = "reset" => ~HasUnrecognized(replacements')]_vars

\* getResult threw on a session that holds a candidate with an unrecognized
\* insertion point among candidates with recognized ones.
C14_Witness ==
    /\ op = "getResult" /\ ret = Threw(UnrecognizedPoint)
    /\ HasUnrecognized(replacements)
    /\ \E k \in 1..Len(replacements) : Recognized(replacements[k])

-----------------------------------------------------------------------------
(* C15 *)

RenderOps == {"getResult", "getSnippet"}

\* In the state a rendering leaves: the candidates in the order its loop
\* spliced them, which is the reverse of the list its sort left in
\* this._replacements.
SpliceSequence == Reverse(replacements)

\* C15: getResult and getSnippet splice an accepted candidate of higher
\* precedence before every accepted candidate of lower precedence.
C15_HigherPrecedenceSplicedFirst ==
    (op \in RenderOps /\ ret.kind = "return") =>
        \A i, j \in 1..Len(SpliceSequence) :
            i < j => SpliceSequence[i].precedence >= SpliceSequence[j].precedence

-----------------------------------------------------------------------------
(* C16 *)

\* The text getSnippet cuts from a rendering of the candidates in the
\* order given.
SnippetOf(f, offs, order) ==
    LET r == RenderLoop(f, PrefixSumTree, order, 1)
        endOffset == offs[HighestEndLine(order, 1) + 1]
    IN  Substring(r.file, offs[LowestStartLine(order, 1)],
                  endOffset + TreeLookup(r.tree, endOffset))

-----------------------------------------------------------------------------
(* C17 *)

\* The candidates of the list that have the precedence v, in their order.
WithPrecedence(repl, v) == SelectSeq(repl, LAMBDA c : c.precedence = v)

\* The list a is the list b in an order of descending precedence that
\* keeps the order of b among candidates of equal precedence.
StablySorted(a, b) ==
    /\ Len(a) = Len(b)
    /\ \A i, j \in 1..Len(a) : i < j => a[i].precedence >= a[j].precedence
    /\ \A v \in {b[i].precedence : i \in 1..Len(b)} :
           WithPrecedence(a, v) = WithPrecedence(b, v)

\* The accepted list changes by append in applyFix and applyFixes, by
\* emptying in reset, and not at all in hasModifications.
AppendOrEmpty ==
    /\ op' \in {"applyFix", "applyFixes"} =>
           /\ Len(replacements') >= Len(replacements)
           /\ SubSeq(replacements', 1, Len(replacements)) = replacements
    /\ op' = "reset" => replacements' = <<>>
    /\ op' = "hasModifications" => replacements' = replacements

\* C17, as stated: getResult and getSnippet leave the accepted list with
\* the same candidates in the same order, and the source text, its lines
\* and the line offsets as they were; the accepted list changes only by
\* append in applyFix and by emptying in reset.
C17_ReadOnly ==
    [][/\ op' \in RenderOps =>
              /\ replacements' = replacements
              /\ UNCHANGED <<file, lines, lineOffsets>>
       /\ AppendOrEmpty]_vars

\* C17, amended: getResult and getSnippet leave the accepted list with the
\* same candidates, in the order of descending precedence that keeps the
\* order they had among candidates of equal precedence, and the source
\* text, its lines and the line offsets as they were; otherwise the
\* accepted list changes only by append in applyFix and by emptying in
\* reset.
C17_ReadOnlyUpToOrder ==
    [][/\ op' \in RenderOps =>
              /\ SameCandidates(replacements', replacements)
              /\ StablySorted(replacements', replacements)
              /\ UNCHANGED <<file, lines, lineOffsets>>
       /\ AppendOrEmpty]_vars

\* A rendering left the accepted list in another order than the one the
\* candidates were accepted in.
C17_Witness ==
    /\ op \in RenderOps
    /\ replacements # Flatten(submitted)
    /\ SameCandidates(replacements, Flatten(submitted))

-----------------------------------------------------------------------------
(* C18 *)

\* The sum of the values of the pairs, from the i-th on, whose point is at
\* most p.
RECURSIVE SumUpTo(_, _, _)
SumUpTo(pairs, p, i) ==
    IF i > Len(pairs) THEN 0
    ELSE (IF pairs[i][1] <= p THEN pairs[i][2] ELSE 0) + SumUpTo(pairs, p, i + 1)

\* C18: on a tree nothing was inserted into, lookup returns 0 for every
\* point; after any inserts, in any order, with points repeated and values
\* below zero, lookup(p) returns the sum of the values inserted at points
\* up to and including p, for every p.
C18_LookupIsPrefixSum ==
    /\ \A p \in 0..(MaxPoint + 1) :
           /\ TreeLookup(tracker, p) = SumUpTo(inserted, p, 1)
           /\ inserted = <<>> => TreeLookup(tracker, p) = 0
    /\ op = "lookup" => ret = Returned(SumUpTo(inserted, arg[1], 1))

\* lookup answered on a tree that was inserted into at descending points
\* and twice at one point, with a value below zero among them.
C18_Witness ==
    /\ op = "lookup" /\ ret.val # 0
    /\ \E i, j, k \in 1..Len(inserted) :
           /\ i < j /\ inserted[i][1] > inserted[j][1]
           /\ k # j /\ inserted[k][1] = inserted[j][1]
           /\ inserted[k][2] < 0
           /\ inserted[j][1] <= arg[1]

-----------------------------------------------------------------------------
(* C19 *)

\* The line has no tab at a column before c.
TabFreeBefore(line, c) ==
    \A k \in 1..Min(c - 1, Len(line)) : line[k] # "\t"

\* C19, as stated: adjustTabStops returns the column it is given whenever
\* the line has no tab before that column.
C19_IdentityOnTabFreePrefix ==
    (op = "adjustTabStops" /\ TabFreeBefore(lines[arg[1]], arg[2])) =>
        ret = Returned(arg[2])

\* C19, amended: when the line has no tab before column c, adjustTabStops
\* returns c for every c from 1 to one past the length of the line, and
\* one past the length of the line for every greater c.
C19_IdentityUpToLineEnd ==
    (op = "adjustTabStops" /\ TabFreeBefore(lines[arg[1]], arg[2])) =>
        ret = Returned(Min(arg[2], Len(lines[arg[1]]) + 1))

\* adjustTabStops was asked for a column past a tab-free prefix, on a line
\* that has a tab from that column on.
C19_Witness ==
    /\ op = "adjustTabStops"
    /\ arg[2] > 1
    /\ arg[2] <= Len(lines[arg[1]])
    /\ TabFreeBefore(lines[arg[1]], arg[2])
    /\ lines[arg[1]][arg[2]] = "\t"
    /\ ret = Returned(arg[2])

-----------------------------------------------------------------------------
(* C20 *)

\* The sum of length + 1 over the first n lines.
RECURSIVE LengthsBefore(_, _)
LengthsBefore(ls, n) ==
    IF n = 0 THEN 0 ELSE LengthsBefore(ls, n - 1) + Len(ls[n]) + 1

\* The line offsets have an entry for every line and one more, increase
\* strictly, and each is the sum of length + 1 over the lines before it.
OffsetsLaw ==
    /\ Len(lineOffsets) = Len(lines) + 1
    /\ \A i \in 1..(Len(lineOffsets) - 1) : lineOffsets[i] < lineOffsets[i + 1]
    /\ \A i \in 1..Len(lines) : lineOffsets[i] = LengthsBefore(lines, i - 1)

\* C20, as stated: the law of the offsets, with a last entry equal to the
\* length of the text.
C20_SentinelIsLength ==
    /\ OffsetsLaw
    /\ lineOffsets[Len(lineOffsets)] = Len(file)

\* C20, amended: the law of the offsets, with a last entry that follows it
\* too, the sum of length + 1 over all lines, which is the length of the
\* text plus one.
C20_SentinelIsLengthPlusOne ==
    /\ OffsetsLaw
    /\ lineOffsets[Len(lineOffsets)] = LengthsBefore(lines, Len(lines))
    /\ lineOffsets[Len(lineOffsets)] = Len(file) + 1

\* A session was built on a text of three lines, the last one empty and
\* another one not.
C20_Witness ==
    /\ op = "new"
    /\ Len(lines) = 3
    /\ lines[3] = <<>>
    /\ \E i \in 1..2 : lines[i] # <<>>

=============================================================================
